---- MODULE Spec2Model ----
(***************************************************************************)
(* A model of the Luau introspection / patching layer: the extension       *)
(* traits LuaDebugExt (debug_api.rs), LuaFunctionExt (function_api.rs),    *)
(* LuaGCExt (gc_api.rs) and the script-visible globals built on them       *)
(* (lune-roblox/src/globals.rs).                                           *)
(*                                                                         *)
(* Every extension operation is an operator from a VM record and its       *)
(* arguments to [vm |-> the VM afterwards, ret |-> what the caller gets].  *)
(* The operand stack is a sequence, its last element the top; a negative   *)
(* index addresses from the top as in the C API (-1 is the top).           *)
(***************************************************************************)
EXTENDS Integers, Sequences, FiniteSets, TLC

VARIABLES
    stack,      \* the operand stack of lua.state()
    upv,        \* upvalues of each function: function id -> sequence of values
    consts,     \* constants of each function: function id -> sequence of values
    frames,     \* active call frames, frames[1] is level 0: sequences of locals
    meta,       \* metatable of each metatable owner: slot -> table id, 0 = none
    readonly,   \* read-only flag of each table
    tfields,    \* fields of each table under the metamethod names
    nalloc,     \* function objects allocated so far (clones, proto closures)
    registry,   \* the VM registry: slot 0 is the named value __FUNCTION_HOOKS
    unref,      \* registry ids released by dropped RegistryKeys
    hookTab,    \* fields of the __FUNCTION_HOOKS table: function id -> value
    hookLog,    \* history: the <<target, hook>> of every hookfunction that returned Ok
    installed,  \* debug.* members present in the global debug table
    debugGlobal,\* TRUE when globals().debug is a table
    lock,       \* the VM handle's lock: 0 when free, else the call that holds it
    order,      \* the hookfunction calls in the order they took the lock
    pc,         \* position of each hookfunction call in flight
    loc,        \* arguments and locals of each hookfunction call in flight
    htab,       \* fields of the hook table each call in flight created, if any
    res         \* the last operation: its name, arguments, outcome, stack depths

vars == <<stack, upv, consts, frames, meta, readonly, tfields, nalloc,
          registry, unref, hookTab, hookLog, installed, debugGlobal,
          lock, order, pc, loc, htab, res>>

-----------------------------------------------------------------------------
(* Bounds of the model *)

NLua == 2
MaxUp == 2
MaxConst == 2
MaxProto == 1
NTables == 2
MaxAlloc == 3
MaxRef == 2
MaxStack == 4
NCalls == 2

-----------------------------------------------------------------------------
(* Values: the tagged union of mlua::Value, by runtime type and identity *)

V(t, id) == [t |-> t, id |-> id]
Nil == V("nil", 0)
Fn(id) == V("function", id)
Tbl(id) == V("table", id)
Ud(id) == V("userdata", id)
Thr(id) == V("thread", id)
Str(id) == V("string", id)
Num(n) == V("number", n)
Bool(b) == V("boolean", IF b THEN 1 ELSE 0)

LuaFuncs == 1..NLua
NativeFn == NLua + 1
Funcs == 1..(NLua + 1)
Tables == 1..NTables
\* the table created lazily for __FUNCTION_HOOKS
HooksTable == NTables + 1
AllTables == 0..(NTables + 3)
\* the table globals().debug holds
DebugTable == NTables + 2
\* the table create_globals makes when globals().debug is no table
FallbackDebugTable == NTables + 3
\* function objects created at run time get the ids after the native function
FreshFn(n) == Fn(NLua + 1 + n)

IsLua(v) == v.t = "function" /\ v.id \in LuaFuncs

\* number of upvalues, constants and nested prototypes of the functions the
\* scripts hold: function 1 has the most of each, the others fewer
UpCount(f) == IF f = 1 THEN MaxUp ELSE (f - 2) % (MaxUp + 1)
ConstCount(f) == IF f = 1 THEN MaxConst ELSE (f - 1) % (MaxConst + 1)
ProtoCount(f) == IF f = 1 THEN MaxProto ELSE (f - 2) % (MaxProto + 1)

\* the name of the n-th upvalue, as a string id; 0 is the null pointer
NullPtr == 0
UpName(n) == n

\* the slot that holds the metatable of v: tables and userdata carry their
\* own, every other type shares one per type
MetaSlot(v) == IF v.t \in {"table", "userdata"} THEN <<v.t, v.id>> ELSE <<v.t, 0>>

\* values handed to the operations as arguments
ArgVals == {Nil, Num(7), Str(1), Fn(1), Tbl(1)}
MetaOwners == {Tbl(t) : t \in Tables} \cup {Ud(1), Str(1), Num(7), Fn(1), Nil}
MetaSlots == {MetaSlot(v) : v \in MetaOwners}

\* metamethod names, as string ids: 1 = "__index", 2 = "__namecall"
Methods == 1..2

-----------------------------------------------------------------------------
(* The VM as the operations see it *)

VM == [stack |-> stack, upv |-> upv, consts |-> consts, frames |-> frames,
       meta |-> meta, ro |-> readonly, tfields |-> tfields, nalloc |-> nalloc,
       reg |-> registry]

SetVM(vm) ==
    /\ stack' = vm.stack
    /\ upv' = vm.upv
    /\ consts' = vm.consts
    /\ frames' = vm.frames
    /\ meta' = vm.meta
    /\ readonly' = vm.ro
    /\ tfields' = vm.tfields
    /\ nalloc' = vm.nalloc
    /\ registry' = vm.reg

\* what an operation returns: Ok with a value, a name and a sequence, or Err
Ok(val, name, seq) == [out |-> "ok", err |-> "", val |-> val, name |-> name, seq |-> seq]
OkVal(val) == Ok(val, NullPtr, <<>>)
OkUnit == Ok(Nil, NullPtr, <<>>)
Err(e) == [out |-> "err", err |-> e, val |-> Nil, name |-> NullPtr, seq |-> <<>>]

-----------------------------------------------------------------------------
(* The C API of the VM *)

Push(vm, v) == [vm EXCEPT !.stack = Append(@, v)]
lua_pop(vm, n) == [vm EXCEPT !.stack = SubSeq(@, 1, Len(@) - n)]
lua_gettop(vm) == Len(vm.stack)
lua_settop(vm, top) ==
    [vm EXCEPT !.stack = [i \in 1..top |-> IF i <= Len(@) THEN @[i] ELSE Nil]]

\* the value a stack index addresses; an index below the base of the stack
\* reads whatever lies there (junk)
index2value(vm, idx, junk) ==
    LET pos == IF idx < 0 THEN Len(vm.stack) + 1 + idx ELSE idx
    IN IF pos >= 1 /\ pos <= Len(vm.stack) THEN vm.stack[pos] ELSE junk

lua_type(vm, idx) == index2value(vm, idx, Nil).t

\* push_ref: the referenced object is copied from the reference thread
push_ref(vm, ref) == Push(vm, ref)
\* push_value: fails (stack or memory exhausted) without pushing
push_value(vm, v, fault) ==
    IF fault THEN [vm |-> vm, ok |-> FALSE] ELSE [vm |-> Push(vm, v), ok |-> TRUE]
pop_value(vm) == [vm |-> lua_pop(vm, 1), val |-> index2value(vm, -1, Nil)]
pop_ref(vm) == pop_value(vm)

lua_getupvalue(vm, funcindex, n) ==
    LET fi == index2value(vm, funcindex, Nil)
    IN IF IsLua(fi) /\ 1 <= n /\ n <= Len(vm.upv[fi.id])
       THEN [vm |-> Push(vm, vm.upv[fi.id][n]), name |-> UpName(n)]
       ELSE [vm |-> vm, name |-> NullPtr]

lua_setupvalue(vm, funcindex, n) ==
    LET fi == index2value(vm, funcindex, Nil)
        val == index2value(vm, -1, Nil)
    IN IF IsLua(fi) /\ 1 <= n /\ n <= Len(vm.upv[fi.id])
       THEN [vm |-> [lua_pop(vm, 1) EXCEPT !.upv[fi.id][n] = val], name |-> UpName(n)]
       ELSE [vm |-> vm, name |-> NullPtr]

lua_getmetatable(vm, objindex) ==
    LET obj == index2value(vm, objindex, Nil)
        mt == vm.meta[MetaSlot(obj)]
    IN IF mt = 0 THEN [vm |-> vm, rc |-> 0] ELSE [vm |-> Push(vm, Tbl(mt)), rc |-> 1]

lua_setmetatable(vm, objindex) ==
    LET obj == index2value(vm, objindex, Nil)
        mt == index2value(vm, -1, Nil)
    IN [lua_pop(vm, 1) EXCEPT !.meta[MetaSlot(obj)] = IF mt.t = "table" THEN mt.id ELSE 0]

lua_clonefunction(vm, idx) ==
    [Push(vm, FreshFn(vm.nalloc + 1)) EXCEPT !.nalloc = @ + 1]

lua_getreadonly(vm, idx) ==
    LET t == index2value(vm, idx, Nil) IN IF vm.ro[t.id] THEN 1 ELSE 0

lua_setreadonly(vm, idx, enabled) ==
    LET t == index2value(vm, idx, Nil) IN [vm EXCEPT !.ro[t.id] = (enabled # 0)]

-----------------------------------------------------------------------------
(* util::StackGuard: the depth at construction, restored when dropped *)

StackGuard_new(vm) == lua_gettop(vm)
StackGuard_drop(vm, top) == IF lua_gettop(vm) # top THEN lua_settop(vm, top) ELSE vm
Guarded(r, top) == [vm |-> StackGuard_drop(r.vm, top), ret |-> r.ret]

-----------------------------------------------------------------------------
(* LuaDebugExt: the Introspection/Patch extension (debug_api.rs) *)

debug_get_registry_value_body(vm) ==
    \* LUA_REGISTRYINDEX always addresses the registry, a table
    LET p == pop_value(Push(vm, Tbl(0)))
    IN IF p.val.t = "table"
       THEN [vm |-> p.vm, ret |-> OkVal(p.val)]
       ELSE [vm |-> p.vm, ret |-> Err("RegistryNotTable")]

debug_get_registry_value(vm) ==
    Guarded(debug_get_registry_value_body(vm), StackGuard_new(vm))

\* debug_get_upvalue without the early return on a null name (lines 61-64)
M_debug_get_upvalue_body_NoNullCheck(vm, func, index) ==
    LET s1 == push_ref(vm, func)
        g == lua_getupvalue(s1, -1, index)
        p == pop_value(g.vm)
    IN [vm |-> lua_pop(p.vm, 1), ret |-> Ok(p.val, g.name, <<>>)]

debug_get_upvalue_body(vm, func, index) ==
    LET s1 == push_ref(vm, func)
        g == lua_getupvalue(s1, -1, index)
    IN IF g.name = NullPtr
       THEN [vm |-> lua_pop(g.vm, 1), ret |-> Err("InvalidUpvalueIndex")]
       ELSE LET p == pop_value(g.vm)
            IN [vm |-> lua_pop(p.vm, 1), ret |-> Ok(p.val, g.name, <<>>)]

debug_get_upvalue(vm, func, index) ==
    Guarded(debug_get_upvalue_body(vm, func, index), StackGuard_new(vm))

\* debug_set_upvalue addressing the value slot (-1) instead of the function (-2)
M_debug_set_upvalue_body_WrongSlot(vm, func, index, value, fault) ==
    LET s1 == push_ref(vm, func)
        s2 == push_value(s1, value, fault)
    IN IF ~s2.ok
       THEN [vm |-> s2.vm, ret |-> Err("PushFailed")]
       ELSE LET g == lua_setupvalue(s2.vm, -1, index)
                s3 == lua_pop(g.vm, 1)
            IN IF g.name = NullPtr
               THEN [vm |-> s3, ret |-> Err("InvalidUpvalueIndex")]
               ELSE [vm |-> s3, ret |-> Ok(Nil, g.name, <<>>)]

debug_set_upvalue_body(vm, func, index, value, fault) ==
    LET s1 == push_ref(vm, func)
        s2 == push_value(s1, value, fault)
    IN IF ~s2.ok
       THEN [vm |-> s2.vm, ret |-> Err("PushFailed")]
       ELSE LET g == lua_setupvalue(s2.vm, -2, index)
                s3 == lua_pop(g.vm, 1)
            IN IF g.name = NullPtr
               THEN [vm |-> s3, ret |-> Err("InvalidUpvalueIndex")]
               ELSE [vm |-> s3, ret |-> Ok(Nil, g.name, <<>>)]

\* debug_set_upvalue without `let _sg = StackGuard::new(state)`
M_debug_set_upvalue_NoGuard(vm, func, index, value, fault) ==
    debug_set_upvalue_body(vm, func, index, value, fault)

debug_set_upvalue(vm, func, index, value, fault) ==
    Guarded(debug_set_upvalue_body(vm, func, index, value, fault), StackGuard_new(vm))

debug_get_metatable_body(vm, value, fault) ==
    LET s1 == push_value(vm, value, fault)
    IN IF ~s1.ok
       THEN [vm |-> s1.vm, ret |-> Err("PushFailed")]
       ELSE LET g == lua_getmetatable(s1.vm, -1)
            IN IF g.rc = 0
               THEN [vm |-> lua_pop(g.vm, 1), ret |-> OkVal(Nil)]
               ELSE LET p == pop_value(g.vm)
                    IN [vm |-> lua_pop(p.vm, 1),
                        ret |-> IF p.val.t = "table" THEN OkVal(p.val) ELSE OkVal(Nil)]

debug_get_metatable(vm, value, fault) ==
    Guarded(debug_get_metatable_body(vm, value, fault), StackGuard_new(vm))

debug_set_metatable_body(vm, value, metatable, fault) ==
    LET s1 == push_value(vm, value, fault)
    IN IF ~s1.ok
       THEN [vm |-> s1.vm, ret |-> Err("PushFailed")]
       ELSE LET s2 == IF metatable # Nil THEN push_ref(s1.vm, metatable)
                                        ELSE Push(s1.vm, Nil)
                s3 == lua_setmetatable(s2, -2)
            IN [vm |-> lua_pop(s3, 1), ret |-> OkVal(Bool(TRUE))]

debug_set_metatable(vm, value, metatable, fault) ==
    Guarded(debug_set_metatable_body(vm, value, metatable, fault), StackGuard_new(vm))

clone_function_body(vm, func) ==
    LET s1 == push_ref(vm, func)
        s2 == lua_clonefunction(s1, -1)
        p == pop_ref(s2)
    IN [vm |-> lua_pop(p.vm, 1), ret |-> OkVal(p.val)]

clone_function(vm, func) ==
    Guarded(clone_function_body(vm, func), StackGuard_new(vm))

is_table_readonly_body(vm, table) ==
    LET s1 == push_ref(vm, table)
        is_readonly == lua_getreadonly(s1, -1) # 0
    IN [vm |-> lua_pop(s1, 1), ret |-> OkVal(Bool(is_readonly))]

is_table_readonly(vm, table) ==
    Guarded(is_table_readonly_body(vm, table), StackGuard_new(vm))

set_table_readonly_body(vm, table, ro) ==
    LET s1 == push_ref(vm, table)
        s2 == lua_setreadonly(s1, -1, IF ro THEN 1 ELSE 0)
    IN [vm |-> lua_pop(s2, 1), ret |-> OkUnit]

set_table_readonly(vm, table, ro) ==
    Guarded(set_table_readonly_body(vm, table, ro), StackGuard_new(vm))

-----------------------------------------------------------------------------
(* Machine integers.  A usize is 64 bits wide, kept as four 16-bit limbs,   *)
(* least significant first; `as i32` keeps the low 32 bits, two's complement *)

LimbBase == 2^16
Usize(l0, l1, l2, l3) == <<l0, l1, l2, l3>>
UsizeOf(n) == Usize(n % LimbBase, n \div LimbBase, 0, 0)
\* comparison of a usize with a small natural number (n < 2^16)
UsizeLess(u, n) == u[2] = 0 /\ u[3] = 0 /\ u[4] = 0 /\ u[1] < n
AsI32(u) ==
    IF u[2] >= LimbBase \div 2
    THEN (u[2] - LimbBase) * LimbBase + u[1]
    ELSE u[2] * LimbBase + u[1]

-----------------------------------------------------------------------------
(* luadebugext: the native primitives behind LuaFunctionExt *)

\* the closure made from nested prototype n of function f, inert (act = 0)
\* or activated (act = 1); closures of one prototype are not told apart
ProtoFn(f, n, act) == Fn(0 - (1 + act + 2 * (n + (MaxProto + 1) * f)))

luau_getconstantcount(vm, funcindex, junk) ==
    LET fi == index2value(vm, funcindex, junk)
    IN IF IsLua(fi) THEN Len(vm.consts[fi.id]) ELSE 0

luau_getconstant(vm, funcindex, n, junk) ==
    LET fi == index2value(vm, funcindex, junk)
    IN IF IsLua(fi) /\ 0 <= n /\ n < Len(vm.consts[fi.id])
       THEN [vm |-> Push(vm, vm.consts[fi.id][n + 1]), rc |-> 1]
       ELSE [vm |-> vm, rc |-> 0]

\* the value to store is on top of the stack; whether the primitive pops it
\* only when it stores it or in every case is the native side's choice (conv)
luau_setconstant(vm, funcindex, n, conv) ==
    LET fi == index2value(vm, funcindex, Nil)
        val == index2value(vm, -1, Nil)
    IN IF IsLua(fi) /\ 0 <= n /\ n < Len(vm.consts[fi.id])
       THEN [vm |-> [lua_pop(vm, 1) EXCEPT !.consts[fi.id][n + 1] = val], rc |-> 1]
       ELSE [vm |-> IF conv = "always" THEN lua_pop(vm, 1) ELSE vm, rc |-> 0]

luau_getprotocount(vm, funcindex, junk) ==
    LET fi == index2value(vm, funcindex, junk)
    IN IF IsLua(fi) THEN ProtoCount(fi.id) ELSE 0

luau_getproto(vm, funcindex, n, activated, junk) ==
    LET fi == index2value(vm, funcindex, junk)
    IN IF IsLua(fi) /\ 0 <= n /\ n < ProtoCount(fi.id)
       THEN [vm |-> Push(vm, ProtoFn(fi.id, n, activated)), rc |-> 1]
       ELSE [vm |-> vm, rc |-> 0]

luau_getstack(vm, level, n) ==
    IF 0 <= level /\ level < Len(vm.frames) /\ 1 <= n /\ n <= Len(vm.frames[level + 1])
    THEN [vm |-> Push(vm, vm.frames[level + 1][n]), rc |-> 1]
    ELSE [vm |-> vm, rc |-> 0]

luau_setstack(vm, level, n, conv) ==
    LET val == index2value(vm, -1, Nil)
    IN IF 0 <= level /\ level < Len(vm.frames) /\ 1 <= n /\ n <= Len(vm.frames[level + 1])
       THEN [vm |-> [lua_pop(vm, 1) EXCEPT !.frames[level + 1][n] = val], rc |-> 1]
       ELSE [vm |-> IF conv = "always" THEN lua_pop(vm, 1) ELSE vm, rc |-> 0]

-----------------------------------------------------------------------------
(* Tables built by the host: raw_set(index, value) on a fresh result table,  *)
(* kept as the sequence of its array part (a hole reads Nil)                 *)

TableRawSet(t, index, val) ==
    [i \in 1..(IF index > Len(t) THEN index ELSE Len(t)) |->
        IF i = index THEN val ELSE IF i <= Len(t) THEN t[i] ELSE Nil]

-----------------------------------------------------------------------------
(* LuaFunctionExt: the Function-Internals extension (function_api.rs) *)

\* for i in i..count: the native call addresses stack index -2; the store of
\* number failAt into the result table fails (0: none does)
RECURSIVE ConstantsLoop(_, _, _, _, _, _, _)
ConstantsLoop(vm, i, count, result, stored, failAt, junk) ==
    IF i >= count
    THEN [vm |-> vm, result |-> result, failed |-> FALSE]
    ELSE LET g == luau_getconstant(vm, -2, i, junk)
         IN IF g.rc = 0
            THEN ConstantsLoop(g.vm, i + 1, count, result, stored, failAt, junk)
            ELSE LET p == pop_value(g.vm)
                 IN IF stored + 1 = failAt
                    THEN [vm |-> p.vm, result |-> result, failed |-> TRUE]
                    ELSE ConstantsLoop(p.vm, i + 1, count,
                                       TableRawSet(result, i + 1, p.val),
                                       stored + 1, failAt, junk)

get_function_constants_body(vm, func, ctFault, failAt, junk) ==
    IF ctFault
    THEN [vm |-> vm, ret |-> Err("CreateTableFailed")]
    ELSE LET s1 == push_ref(vm, func)
             count == luau_getconstantcount(s1, -1, junk)
             l == ConstantsLoop(s1, 0, count, <<>>, 0, failAt, junk)
         IN IF l.failed
            THEN [vm |-> l.vm, ret |-> Err("RawSetFailed")]
            ELSE [vm |-> lua_pop(l.vm, 1), ret |-> Ok(Nil, NullPtr, l.result)]

get_function_constants(vm, func, ctFault, failAt, junk) ==
    Guarded(get_function_constants_body(vm, func, ctFault, failAt, junk),
            StackGuard_new(vm))

get_function_constant_body(vm, func, index) ==
    LET s1 == push_ref(vm, func)
        g == luau_getconstant(s1, -1, AsI32(index), Nil)
    IN IF g.rc # 0
       THEN LET p == pop_value(g.vm)
            IN [vm |-> lua_pop(p.vm, 1), ret |-> OkVal(p.val)]
       ELSE [vm |-> lua_pop(g.vm, 1), ret |-> OkVal(Nil)]

get_function_constant(vm, func, index) ==
    Guarded(get_function_constant_body(vm, func, index), StackGuard_new(vm))

set_function_constant_body(vm, func, index, value, fault, conv) ==
    LET s1 == push_ref(vm, func)
        s2 == push_value(s1, value, fault)
    IN IF ~s2.ok
       THEN [vm |-> s2.vm, ret |-> Err("PushFailed")]
       ELSE LET g == luau_setconstant(s2.vm, -2, AsI32(index), conv)
            IN [vm |-> lua_pop(g.vm, 1), ret |-> OkUnit]

set_function_constant(vm, func, index, value, fault, conv) ==
    Guarded(set_function_constant_body(vm, func, index, value, fault, conv),
            StackGuard_new(vm))

RECURSIVE ProtosLoop(_, _, _, _, _, _, _)
ProtosLoop(vm, i, count, result, stored, failAt, junk) ==
    IF i >= count
    THEN [vm |-> vm, result |-> result, failed |-> FALSE]
    ELSE LET g == luau_getproto(vm, -2, i, 0, junk)
         IN IF g.rc = 0
            THEN ProtosLoop(g.vm, i + 1, count, result, stored, failAt, junk)
            ELSE LET p == pop_ref(g.vm)
                 IN IF stored + 1 = failAt
                    THEN [vm |-> p.vm, result |-> result, failed |-> TRUE]
                    ELSE ProtosLoop(p.vm, i + 1, count,
                                    TableRawSet(result, i + 1, p.val),
                                    stored + 1, failAt, junk)

get_function_protos_body(vm, func, ctFault, failAt, junk) ==
    IF ctFault
    THEN [vm |-> vm, ret |-> Err("CreateTableFailed")]
    ELSE LET s1 == push_ref(vm, func)
             count == luau_getprotocount(s1, -1, junk)
             l == ProtosLoop(s1, 0, count, <<>>, 0, failAt, junk)
         IN IF l.failed
            THEN [vm |-> l.vm, ret |-> Err("RawSetFailed")]
            ELSE [vm |-> lua_pop(l.vm, 1), ret |-> Ok(Nil, NullPtr, l.result)]

get_function_protos(vm, func, ctFault, failAt, junk) ==
    Guarded(get_function_protos_body(vm, func, ctFault, failAt, junk),
            StackGuard_new(vm))

get_function_proto_body(vm, func, index, activated) ==
    LET s1 == push_ref(vm, func)
        g == luau_getproto(s1, -1, AsI32(index), IF activated THEN 1 ELSE 0, Nil)
    IN IF g.rc # 0
       THEN LET p == pop_ref(g.vm)
            IN [vm |-> lua_pop(p.vm, 1), ret |-> OkVal(p.val)]
       ELSE [vm |-> lua_pop(g.vm, 1), ret |-> OkVal(Nil)]

get_function_proto(vm, func, index, activated) ==
    Guarded(get_function_proto_body(vm, func, index, activated), StackGuard_new(vm))

get_stack_value_body(vm, level, index) ==
    LET g == luau_getstack(vm, AsI32(level), AsI32(index))
    IN IF g.rc # 0
       THEN LET p == pop_value(g.vm) IN [vm |-> p.vm, ret |-> OkVal(p.val)]
       ELSE [vm |-> g.vm, ret |-> OkVal(Nil)]

get_stack_value(vm, level, index) ==
    Guarded(get_stack_value_body(vm, level, index), StackGuard_new(vm))

set_stack_value_body(vm, level, index, value, fault, conv) ==
    LET s1 == push_value(vm, value, fault)
    IN IF ~s1.ok
       THEN [vm |-> s1.vm, ret |-> Err("PushFailed")]
       ELSE [vm |-> luau_setstack(s1.vm, AsI32(level), AsI32(index), conv).vm,
             ret |-> OkUnit]

set_stack_value(vm, level, index, value, fault, conv) ==
    Guarded(set_stack_value_body(vm, level, index, value, fault, conv),
            StackGuard_new(vm))

-----------------------------------------------------------------------------
(* The registry and its traversal *)

\* the key of registry slot k as a value: slot 0 is the string key
\* "__FUNCTION_HOOKS", the others are the integer reference ids
RegKey(k) == IF k = 0 THEN Str(0) ELSE Num(k)
\* lua_next visits the array part (the reference ids) before the hash part
RegOrder == [i \in 1..(MaxRef + 1) |-> IF i <= MaxRef THEN i ELSE 0]
RegPos(key) ==
    IF key = Nil THEN 0
    ELSE CHOOSE i \in 1..(MaxRef + 1) : RegKey(RegOrder[i]) = key

\* lua_next(L, -2) with the registry at -2: pops the key, pushes the next
\* key and its value, or pushes nothing at the end of the table
lua_next(vm) ==
    LET key == index2value(vm, -1, Nil)
        rest == {i \in (RegPos(key) + 1)..(MaxRef + 1) : vm.reg[RegOrder[i]] # Nil}
        popped == lua_pop(vm, 1)
    IN IF rest = {}
       THEN [vm |-> popped, rc |-> 0]
       ELSE LET i == CHOOSE j \in rest : \A k \in rest : j <= k
            IN [vm |-> Push(Push(popped, RegKey(RegOrder[i])), vm.reg[RegOrder[i]]),
                rc |-> 1]

lua_pushvalue(vm, idx) == Push(vm, index2value(vm, idx, Nil))
\* lua_pushvalue(L, LUA_REGISTRYINDEX)
lua_pushregistry(vm) == Push(vm, Tbl(0))

-----------------------------------------------------------------------------
(* Type names, as sequences of character codes *)

NAME_function == <<102, 117, 110, 99, 116, 105, 111, 110>>
NAME_table == <<116, 97, 98, 108, 101>>
NAME_userdata == <<117, 115, 101, 114, 100, 97, 116, 97>>
NAME_thread == <<116, 104, 114, 101, 97, 100>>
NAME_string == <<115, 116, 114, 105, 110, 103>>

\* str::to_lowercase on the characters that can matter: 'A'..'Z' become
\* 'a'..'z', every other character of the inputs stays
to_lowercase(s) == [i \in 1..Len(s) |-> IF s[i] >= 65 /\ s[i] <= 90 THEN s[i] + 32 ELSE s[i]]

-----------------------------------------------------------------------------
(* LuaGCExt: the GC enumeration extension (gc_api.rs) *)

\* the should_include match with tables let through whatever the flag says
M_ShouldInclude_TablesAlways(val_type, include_tables) ==
    CASE val_type \in {"table", "function", "userdata", "thread"} -> TRUE
      [] OTHER -> FALSE

ShouldInclude(val_type, include_tables) ==
    CASE val_type = "table" -> include_tables
      [] val_type \in {"function", "userdata", "thread"} -> TRUE
      [] OTHER -> FALSE

\* while lua_next(state, -2) != 0 { ... }: index is the next position of the
\* result table; the store of number failAt fails (0: none does)
RECURSIVE GetGcLoop(_, _, _, _, _)
GetGcLoop(vm, include_tables, result, index, failAt) ==
    LET n == lua_next(vm)
    IN IF n.rc = 0
       THEN [vm |-> n.vm, result |-> result, failed |-> FALSE]
       ELSE IF ShouldInclude(lua_type(n.vm, -1), include_tables)
            THEN LET p == pop_value(lua_pushvalue(n.vm, -1))
                 IN IF index = failAt
                    THEN [vm |-> p.vm, result |-> result, failed |-> TRUE]
                    ELSE GetGcLoop(lua_pop(p.vm, 1), include_tables,
                                   TableRawSet(result, index, p.val), index + 1, failAt)
            ELSE GetGcLoop(lua_pop(n.vm, 1), include_tables, result, index, failAt)

get_gc_objects(vm, include_tables, ctFault, failAt) ==
    IF ctFault
    THEN [vm |-> vm, ret |-> Err("CreateTableFailed")]
    ELSE LET s1 == lua_pushregistry(vm)
             s2 == Push(s1, Nil)
             l == GetGcLoop(s2, include_tables, <<>>, 1, failAt)
         IN IF l.failed
            THEN [vm |-> l.vm, ret |-> Err("RawSetFailed")]
            ELSE [vm |-> lua_pop(l.vm, 1), ret |-> Ok(Nil, NullPtr, l.result)]

\* the type_id match without to_lowercase()
M_FilterTypeId_CaseSensitive(type_filter) ==
    LET name == type_filter
    IN CASE name = NAME_function -> "function"
         [] name = NAME_table -> "table"
         [] name = NAME_userdata -> "userdata"
         [] name = NAME_thread -> "thread"
         [] name = NAME_string -> "string"
         [] OTHER -> ""

\* the type tag a filter name selects, "" for an unknown name
FilterTypeId(type_filter) ==
    LET name == to_lowercase(type_filter)
    IN CASE name = NAME_function -> "function"
         [] name = NAME_table -> "table"
         [] name = NAME_userdata -> "userdata"
         [] name = NAME_thread -> "thread"
         [] name = NAME_string -> "string"
         [] OTHER -> ""

RECURSIVE FilterGcLoop(_, _, _, _, _)
FilterGcLoop(vm, type_id, result, index, failAt) ==
    LET n == lua_next(vm)
    IN IF n.rc = 0
       THEN [vm |-> n.vm, result |-> result, failed |-> FALSE]
       ELSE IF lua_type(n.vm, -1) = type_id
            THEN LET p == pop_value(lua_pushvalue(n.vm, -1))
                 IN IF index = failAt
                    THEN [vm |-> p.vm, result |-> result, failed |-> TRUE]
                    ELSE FilterGcLoop(lua_pop(p.vm, 1), type_id,
                                      TableRawSet(result, index, p.val), index + 1, failAt)
            ELSE FilterGcLoop(lua_pop(n.vm, 1), type_id, result, index, failAt)

filter_gc_objects(vm, type_filter, ctFault, failAt) ==
    IF ctFault
    THEN [vm |-> vm, ret |-> Err("CreateTableFailed")]
    ELSE LET type_id == FilterTypeId(type_filter)
         IN IF type_id = ""
            THEN [vm |-> vm, ret |-> Ok(Nil, NullPtr, <<>>)]
            ELSE LET s1 == lua_pushregistry(vm)
                     s2 == Push(s1, Nil)
                     l == FilterGcLoop(s2, type_id, <<>>, 1, failAt)
                 IN IF l.failed
                    THEN [vm |-> l.vm, ret |-> Err("RawSetFailed")]
                    ELSE [vm |-> lua_pop(l.vm, 1), ret |-> Ok(Nil, NullPtr, l.result)]

-----------------------------------------------------------------------------
(* mlua's host-side table and registry API, as the globals use it *)

\* Table::get / Table::set on a table of the VM: a keyed read; a keyed write,
\* which the VM rejects on a read-only table
Table_get(vm, t, key) == vm.tfields[t][key]
Table_set(vm, t, key, val) ==
    IF vm.ro[t]
    THEN [vm |-> vm, ok |-> FALSE]
    ELSE [vm |-> [vm EXCEPT !.tfields[t][key] = val], ok |-> TRUE]

\* Lua::create_registry_value: the value goes into a registry slot, a slot
\* released by a dropped key first, else the lowest free one
create_registry_value(vm, sf, value, fault) ==
    IF fault
    THEN [vm |-> vm, sf |-> sf, id |-> 0, ok |-> FALSE]
    ELSE IF sf.unref # <<>>
         THEN LET id == sf.unref[Len(sf.unref)]
              IN [vm |-> [vm EXCEPT !.reg[id] = value],
                  sf |-> [sf EXCEPT !.unref = SubSeq(@, 1, Len(@) - 1)],
                  id |-> id, ok |-> TRUE]
         ELSE LET id == CHOOSE k \in 1..MaxRef :
                            vm.reg[k] = Nil /\ \A j \in 1..(k - 1) : vm.reg[j] # Nil
              IN [vm |-> [vm EXCEPT !.reg[id] = value], sf |-> sf, id |-> id, ok |-> TRUE]

\* a RegistryKey handed to Lua is the value it refers to
RegistryKey_into_lua(vm, id) == vm.reg[id]
\* a dropped RegistryKey releases its id for reuse; the slot keeps its value
RegistryKey_drop(sf, id) == [sf EXCEPT !.unref = Append(@, id)]

-----------------------------------------------------------------------------
(* The global surface (lune-roblox/src/globals.rs) *)

Panic == [out |-> "panic", err |-> "unwrap", val |-> Nil, name |-> NullPtr, seq |-> <<>>]

\* getgc(includeTables?): the flag is "none" when omitted
getgc(vm, include_tables, ctFault, failAt) ==
    get_gc_objects(vm, IF include_tables = "none" THEN FALSE ELSE include_tables = "true",
                   ctFault, failAt)

filtergc(vm, type_filter, ctFault, failAt) ==
    filter_gc_objects(vm, type_filter, ctFault, failAt)

getrawmetatable(vm, o, fault) == debug_get_metatable(vm, o, fault)

setrawmetatable(vm, obj, mt, fault) ==
    LET r == debug_set_metatable(vm, obj, mt, fault)
    IN IF r.ret.out = "err" THEN r ELSE [vm |-> r.vm, ret |-> OkVal(obj)]

\* keying the hook entry by the clone instead of the target
M_HookKeySource_Clone(target_func, original) == original

\* the function whose registry value keys the hook entry
HookKeySource(target_func, original) == target_func

\* a hookfunction that never finds the table a previous call registered
M_HaveHooksTable_Never(vm) == FALSE

\* lua.named_registry_value::<LuaTable>("__FUNCTION_HOOKS") is Ok
HaveHooksTable(vm) == vm.reg[0].t = "table"

\* hookfunction(target, hook); fault names the step that fails, "none" if none
hookfunction(vm, sf, target, hook, fault) ==
    IF target.t # "function"
    THEN [vm |-> vm, sf |-> sf, ret |-> Err("NotAFunction")]
    ELSE LET c == clone_function(vm, target)
             original == c.ret.val
             \* named_registry_value::<LuaTable>("__FUNCTION_HOOKS") is Ok
             have == HaveHooksTable(c.vm)
         IN IF ~have /\ fault \in {"create_table", "set_named"}
            THEN \* lua.create_table().unwrap(), set_named_registry_value(..).unwrap()
                 [vm |-> c.vm, sf |-> sf, ret |-> Panic]
            ELSE LET vm2 == IF have THEN c.vm ELSE [c.vm EXCEPT !.reg[0] = Tbl(HooksTable)]
                     k == create_registry_value(vm2, sf, HookKeySource(target, original),
                                                fault = "create_registry_value")
                 IN IF ~k.ok
                    THEN [vm |-> vm2, sf |-> sf, ret |-> Err("RegistryValueFailed")]
                    ELSE LET key == RegistryKey_into_lua(k.vm, k.id)
                             sf2 == RegistryKey_drop(k.sf, k.id)
                         IN IF fault = "set"
                            THEN [vm |-> k.vm, sf |-> sf2, ret |-> Err("TableSetFailed")]
                            ELSE [vm |-> k.vm,
                                  sf |-> [sf2 EXCEPT !.hookTab[key.id] = hook],
                                  ret |-> OkVal(original)]

\* hookmetamethod treating an absent metatable like getrawmetatable does
M_hookmetamethod_AbsentIsNil(vm, obj, method, hook, fault) ==
    LET g == debug_get_metatable(vm, obj, fault)
    IN IF g.ret.out = "err" THEN g
       ELSE IF g.ret.val = Nil
            THEN [vm |-> g.vm, ret |-> OkVal(Nil)]
            ELSE LET mt == g.ret.val.id
                     original == Table_get(g.vm, mt, method)
                     st == Table_set(g.vm, mt, method, hook)
                 IN IF ~st.ok
                    THEN [vm |-> st.vm, ret |-> Err("ReadonlyTable")]
                    ELSE [vm |-> st.vm, ret |-> OkVal(original)]

hookmetamethod(vm, obj, method, hook, fault) ==
    LET g == debug_get_metatable(vm, obj, fault)
    IN IF g.ret.out = "err" THEN g
       ELSE IF g.ret.val = Nil
            THEN [vm |-> g.vm, ret |-> Err("NoMetatable")]
            ELSE LET mt == g.ret.val.id
                     original == Table_get(g.vm, mt, method)
                     st == Table_set(g.vm, mt, method, hook)
                 IN IF ~st.ok
                    THEN [vm |-> st.vm, ret |-> Err("ReadonlyTable")]
                    ELSE [vm |-> st.vm, ret |-> OkVal(original)]

\* the table debug.getupvalues builds: upvalue name -> value, Nil where the
\* table has no entry (storing nil under a name leaves no entry)
NoUpvalues == [n \in 1..MaxUp |-> Nil]

\* loop { match lua.debug_get_upvalue(&f, idx) { .. } }: probes lists the
\* indices asked so far; the store of number failAt fails (0: none does)
RECURSIVE UpvaluesLoop(_, _, _, _, _, _, _)
UpvaluesLoop(vm, f, idx, result, probes, stored, failAt) ==
    LET g == debug_get_upvalue(vm, f, idx)
        asked == Append(probes, idx)
    IN IF g.ret.out = "err"
       THEN [vm |-> g.vm, ret |-> Ok(Nil, NullPtr, result), probes |-> asked]
       ELSE IF g.ret.name # NullPtr
            THEN IF stored + 1 = failAt
                 THEN [vm |-> g.vm, ret |-> Err("TableSetFailed"), probes |-> asked]
                 ELSE UpvaluesLoop(g.vm, f, idx + 1,
                                   [result EXCEPT ![g.ret.name] = g.ret.val],
                                   asked, stored + 1, failAt)
            ELSE UpvaluesLoop(g.vm, f, idx + 1, result, asked, stored, failAt)

\* debug.getupvalues probing from index 0
M_getupvalues_FromZero(vm, f, ctFault, failAt) ==
    IF ctFault
    THEN [vm |-> vm, ret |-> Err("CreateTableFailed"), probes |-> <<>>]
    ELSE UpvaluesLoop(vm, f, 0, NoUpvalues, <<>>, 0, failAt)

\* debug.getupvalues(f)
getupvalues(vm, f, ctFault, failAt) ==
    IF ctFault
    THEN [vm |-> vm, ret |-> Err("CreateTableFailed"), probes |-> <<>>]
    ELSE UpvaluesLoop(vm, f, 1, NoUpvalues, <<>>, 0, failAt)

\* the debug.* members create_globals installs, in order
NumDebugMembers == 10

\* debug_table.set(name_k, create_debug_k(lua)?)? for k = k, k+1, ...; the
\* creation or the store of member failAt fails (0: none does)
RECURSIVE InstallMembers(_, _, _, _, _)
InstallMembers(vm, tbl, inst, k, failAt) ==
    IF k > NumDebugMembers
    THEN [inst |-> inst, ok |-> TRUE]
    ELSE IF k = failAt \/ vm.ro[tbl]
         THEN [inst |-> inst, ok |-> FALSE]
         ELSE InstallMembers(vm, tbl, inst \cup {k}, k + 1, failAt)

\* create_globals; fault.at is "none", "globals" (one of the twenty globals
\* cannot be created), "debug_table" (the fallback table cannot be created)
\* or "member" (debug member fault.k cannot be created or stored)
create_globals(vm, inst, dbg, fault) ==
    IF fault.at = "globals"
    THEN [vm |-> vm, inst |-> inst, members |-> {}, ret |-> Err("CreateFunctionFailed")]
    ELSE IF ~dbg /\ fault.at = "debug_table"
    THEN [vm |-> vm, inst |-> inst, members |-> {}, ret |-> Panic]
    ELSE LET tbl == IF dbg THEN DebugTable ELSE FallbackDebugTable
             had == IF dbg THEN inst ELSE {}
             r1 == is_table_readonly(vm, Tbl(tbl))
             was_readonly == r1.ret.out = "ok" /\ r1.ret.val = Bool(TRUE)
             vm2 == IF was_readonly THEN set_table_readonly(r1.vm, Tbl(tbl), FALSE).vm
                                    ELSE r1.vm
             m == InstallMembers(vm2, tbl, had, 1, IF fault.at = "member" THEN fault.k ELSE 0)
         IN IF ~m.ok
            THEN [vm |-> vm2, inst |-> IF dbg THEN m.inst ELSE inst, members |-> m.inst,
                  ret |-> Err("InstallFailed")]
            ELSE LET vm3 == IF was_readonly THEN set_table_readonly(vm2, Tbl(tbl), TRUE).vm
                                            ELSE vm2
                 IN [vm |-> vm3, inst |-> IF dbg THEN m.inst ELSE inst, members |-> m.inst,
                     ret |-> OkVal(Tbl(tbl))]

-----------------------------------------------------------------------------
(* The state after construction *)


upv0 == [f \in Funcs |-> IF f \in LuaFuncs THEN [j \in 1..UpCount(f) |-> Num(j)] ELSE <<>>]
consts0 == [f \in Funcs |-> IF f \in LuaFuncs THEN [j \in 1..ConstCount(f) |-> Num(10 + j)] ELSE <<>>]
frames0 == << <<Num(20)>>, <<>> >>
meta0 == [s \in MetaSlots |-> 0]
readonly0 == [t \in AllTables |-> FALSE]
tfields0 == [t \in Tables |-> [m \in Methods |-> Nil]]
registry0 == [k \in 0..MaxRef |-> Nil]
hookTab0 == [f \in 1..(NLua + 1 + MaxAlloc) |-> Nil]
res0 == [op |-> "init"]
\* the hookfunction calls that may be in flight at once, and a call's locals
Procs == 1..NCalls
loc0 == [target |-> Nil, hook |-> Nil, original |-> Nil, t |-> Nil, key |-> 0,
         created |-> FALSE, ret |-> res0]

\* what the operand stack may hold when an operation is entered
StackInits == {<<>>, <<Num(7)>>, <<Tbl(1), Fn(2)>>}
\* what a read below the base of the stack may find
Junk == {Nil, Fn(2)}

InitCommon ==
    /\ stack \in StackInits
    /\ upv = upv0
    /\ consts = consts0
    /\ frames = frames0
    /\ nalloc = 0
    /\ unref = <<>>
    /\ hookTab = hookTab0
    /\ hookLog = <<>>
    /\ installed = {}
    /\ res = res0
    /\ lock = 0
    /\ order = <<>>
    /\ pc = [p \in Procs |-> "done"]
    /\ loc = [p \in Procs |-> loc0]
    /\ htab = [p \in Procs |-> hookTab0]

\* the record of an operation: r is what the operation's operator gave
MkRes(op, r, arg, pre) ==
    [op |-> op, ret |-> r.ret, d0 |-> Len(stack), d1 |-> Len(r.vm.stack),
     arg |-> arg, pre |-> pre]

Calls == <<lock, order, pc, loc, htab>>
Surface == <<unref, hookTab, hookLog, installed, debugGlobal, Calls>>

-----------------------------------------------------------------------------
(* The extension operations as steps *)

\* index arguments: i32 upvalue indices, usize constant/prototype/level indices
UpIdx == {-1, 0, 2147483647} \cup 1..(MaxUp + 1)
UsizeIdx == {UsizeOf(n) : n \in 0..MaxConst}
            \cup {Usize(0, LimbBase \div 2, 0, 0), Usize(0, 0, 1, 0), Usize(1, 0, 1, 0),
                  Usize(LimbBase - 1, LimbBase - 1, LimbBase - 1, LimbBase - 1)}
WriteVals == {Nil, Tbl(1)}
PopConv == {"on_success", "always"}

GetRegistry ==
    LET r == debug_get_registry_value(VM)
    IN SetVM(r.vm) /\ res' = MkRes("get_registry", r, <<>>, <<>>) /\ UNCHANGED Surface

GetUpvalue(Fs, Is) ==
    \E f \in Fs, i \in Is :
        LET r == debug_get_upvalue(VM, Fn(f), i)
        IN /\ SetVM(r.vm)
           /\ res' = MkRes("get_upvalue", r, [f |-> f, i |-> i], upv)
           /\ UNCHANGED Surface

SetUpvalue(Fs, Is, Vs) ==
    \E f \in Fs, i \in Is, v \in Vs, fault \in BOOLEAN :
        LET r == debug_set_upvalue(VM, Fn(f), i, v, fault)
        IN /\ SetVM(r.vm)
           /\ res' = MkRes("set_upvalue", r, [f |-> f, i |-> i, v |-> v, fault |-> fault], upv)
           /\ UNCHANGED Surface

GetMetatable(Owners) ==
    \E v \in Owners, fault \in BOOLEAN :
        LET r == debug_get_metatable(VM, v, fault)
        IN /\ SetVM(r.vm)
           /\ res' = MkRes("get_metatable", r, [v |-> v, fault |-> fault], meta)
           /\ UNCHANGED Surface

SetMetatable(Owners, Mts) ==
    \E v \in Owners, mt \in Mts, fault \in BOOLEAN :
        LET r == debug_set_metatable(VM, v, mt, fault)
        IN /\ SetVM(r.vm)
           /\ res' = MkRes("set_metatable", r, [v |-> v, mt |-> mt, fault |-> fault], <<>>)
           /\ UNCHANGED Surface

CloneFunction ==
    \E f \in Funcs :
        /\ nalloc < MaxAlloc
        /\ LET r == clone_function(VM, Fn(f))
           IN /\ SetVM(r.vm)
              /\ res' = MkRes("clone_function", r, [f |-> f], <<>>)
              /\ UNCHANGED Surface

IsTableReadonly(Ts) ==
    \E t \in Ts :
        LET r == is_table_readonly(VM, Tbl(t))
        IN /\ SetVM(r.vm)
           /\ res' = MkRes("is_table_readonly", r, [t |-> t], <<>>)
           /\ UNCHANGED Surface

SetTableReadonly(Ts) ==
    \E t \in Ts, ro \in BOOLEAN :
        LET r == set_table_readonly(VM, Tbl(t), ro)
        IN /\ SetVM(r.vm)
           /\ res' = MkRes("set_table_readonly", r, [t |-> t, ro |-> ro], <<>>)
           /\ UNCHANGED Surface

GetConstants(Fs) ==
    \E f \in Fs, ctFault \in BOOLEAN, failAt \in 0..MaxConst, junk \in Junk :
        LET r == get_function_constants(VM, Fn(f), ctFault, failAt, junk)
        IN /\ SetVM(r.vm)
           /\ res' = MkRes("get_constants", r,
                           [f |-> f, ctFault |-> ctFault, failAt |-> failAt, junk |-> junk], <<>>)
           /\ UNCHANGED Surface

GetConstant(Fs, Is) ==
    \E f \in Fs, idx \in Is :
        LET r == get_function_constant(VM, Fn(f), idx)
        IN /\ SetVM(r.vm)
           /\ res' = MkRes("get_constant", r, [f |-> f, idx |-> idx], <<>>)
           /\ UNCHANGED Surface

SetConstant(Fs, Is, Vs) ==
    \E f \in Fs, idx \in Is, v \in Vs, fault \in BOOLEAN, conv \in PopConv :
        LET r == set_function_constant(VM, Fn(f), idx, v, fault, conv)
        IN /\ SetVM(r.vm)
           /\ res' = MkRes("set_constant", r, [f |-> f, idx |-> idx, v |-> v, fault |-> fault], consts)
           /\ UNCHANGED Surface

GetProtos(Fs) ==
    \E f \in Fs, ctFault \in BOOLEAN, failAt \in 0..MaxProto, junk \in Junk :
        LET r == get_function_protos(VM, Fn(f), ctFault, failAt, junk)
        IN /\ SetVM(r.vm)
           /\ res' = MkRes("get_protos", r,
                           [f |-> f, ctFault |-> ctFault, failAt |-> failAt, junk |-> junk], <<>>)
           /\ UNCHANGED Surface

GetProto(Fs, Is) ==
    \E f \in Fs, idx \in Is, activated \in BOOLEAN :
        LET r == get_function_proto(VM, Fn(f), idx, activated)
        IN /\ SetVM(r.vm)
           /\ res' = MkRes("get_proto", r, [f |-> f, idx |-> idx, activated |-> activated], <<>>)
           /\ UNCHANGED Surface

GetStackValue(Ls, Is) ==
    \E level \in Ls, idx \in Is :
        LET r == get_stack_value(VM, level, idx)
        IN /\ SetVM(r.vm)
           /\ res' = MkRes("get_stack_value", r, [level |-> level, idx |-> idx], <<>>)
           /\ UNCHANGED Surface

SetStackValue(Ls, Is, Vs) ==
    \E level \in Ls, idx \in Is, v \in Vs, fault \in BOOLEAN, conv \in PopConv :
        LET r == set_stack_value(VM, level, idx, v, fault, conv)
        IN /\ SetVM(r.vm)
           /\ res' = MkRes("set_stack_value", r, [level |-> level, idx |-> idx, fault |-> fault], <<>>)
           /\ UNCHANGED Surface

-----------------------------------------------------------------------------
(* SpecExt: every operation of the two extensions, on a small heap *)

InitExt ==
    /\ InitCommon
    /\ meta = meta0
    /\ readonly = readonly0
    /\ tfields = tfields0
    /\ registry = registry0
    /\ debugGlobal = TRUE

\* an index in range, one past the range, and one that wraps when narrowed
ExtIdx == {UsizeOf(0), UsizeOf(MaxConst), Usize(0, 0, 1, 0)}

NextExt ==
    \/ GetRegistry
    \/ GetUpvalue({1, NativeFn}, {1, MaxUp + 1})
    \/ SetUpvalue({1, NativeFn}, {1, MaxUp + 1}, {Tbl(1)})
    \/ GetMetatable({Tbl(1), Num(7)})
    \/ SetMetatable({Tbl(1)}, {Nil, Tbl(1)})
    \/ CloneFunction
    \/ IsTableReadonly({1})
    \/ SetTableReadonly({1})
    \/ GetConstants({1, NativeFn})
    \/ GetConstant({1, NativeFn}, ExtIdx)
    \/ SetConstant({1, NativeFn}, ExtIdx, {Tbl(1)})
    \/ GetProtos({1, NativeFn})
    \/ GetProto({1, NativeFn}, ExtIdx)
    \/ GetStackValue({UsizeOf(0), UsizeOf(2)}, {UsizeOf(1), Usize(0, 0, 1, 0)})
    \/ SetStackValue({UsizeOf(0), UsizeOf(2)}, {UsizeOf(1), Usize(0, 0, 1, 0)}, {Tbl(1)})

SpecExt == InitExt /\ [][NextExt]_vars

-----------------------------------------------------------------------------
(* SpecUpv: reading and writing upvalues, every function and index *)

GetUpvalues ==
    \E f \in Funcs, ctFault \in BOOLEAN, failAt \in 0..MaxUp :
        LET r == getupvalues(VM, Fn(f), ctFault, failAt)
        IN /\ SetVM(r.vm)
           /\ res' = [op |-> "getupvalues", ret |-> r.ret, d0 |-> Len(stack),
                      d1 |-> Len(r.vm.stack),
                      arg |-> [f |-> f, ctFault |-> ctFault, failAt |-> failAt],
                      pre |-> upv, probes |-> r.probes]
           /\ UNCHANGED Surface

NextUpv ==
    \/ GetUpvalue(Funcs, UpIdx)
    \/ SetUpvalue(Funcs, UpIdx, WriteVals)
    \/ GetUpvalues

SpecUpv == InitExt /\ [][NextUpv]_vars

-----------------------------------------------------------------------------
(* SpecGC: getgc and filtergc over every registry content *)

RegVals == {Nil, Fn(1), Fn(2), Tbl(1), Ud(1), Thr(1), Str(1), Num(7), Bool(TRUE)}

\* create_table fails, or the store of number failAt fails, or nothing does
GcFaults == {[ct |-> TRUE, failAt |-> 0]} \cup {[ct |-> FALSE, failAt |-> n] : n \in 0..2}

\* "function", "FUNCTION", "Table", "userdata", "THREAD", "String", "number",
\* "", "functions", "Nil"
FilterNames ==
    {NAME_function, <<70, 85, 78, 67, 84, 73, 79, 78>>, <<84, 97, 98, 108, 101>>,
     NAME_userdata, <<84, 72, 82, 69, 65, 68>>, <<83, 116, 114, 105, 110, 103>>,
     <<110, 117, 109, 98, 101, 114>>, <<>>, NAME_function \o <<115>>, <<78, 105, 108>>}

\* the traversal needs three stack slots above the caller's
GetGc ==
    \E include_tables \in {"none", "false", "true"}, fault \in GcFaults :
        /\ Len(stack) + 3 <= MaxStack
        /\ LET r == getgc(VM, include_tables, fault.ct, fault.failAt)
           IN /\ SetVM(r.vm)
              /\ res' = MkRes("getgc", r,
                              [include_tables |-> include_tables, ctFault |-> fault.ct,
                               failAt |-> fault.failAt], <<>>)
              /\ UNCHANGED Surface

FilterGc ==
    \E type_filter \in FilterNames, fault \in GcFaults :
        /\ Len(stack) + 3 <= MaxStack
        /\ LET r == filtergc(VM, type_filter, fault.ct, fault.failAt)
           IN /\ SetVM(r.vm)
              /\ res' = MkRes("filtergc", r,
                              [type_filter |-> type_filter, ctFault |-> fault.ct,
                               failAt |-> fault.failAt], <<>>)
              /\ UNCHANGED Surface

InitGC ==
    /\ InitCommon
    /\ meta = meta0
    /\ readonly = readonly0
    /\ tfields = tfields0
    /\ registry \in {r \in [0..MaxRef -> RegVals \cup {Tbl(HooksTable)}] :
                        /\ r[0] \in {Nil, Tbl(HooksTable)}
                        /\ \A k \in 1..MaxRef : r[k] \in RegVals}
    /\ debugGlobal = TRUE

NextGC == GetGc \/ FilterGc

SpecGC == InitGC /\ [][NextGC]_vars

-----------------------------------------------------------------------------
(* SpecGlobals: create_globals against a debug table scripts may have frozen *)

GlobalsFaults ==
    {[at |-> a, k |-> 0] : a \in {"none", "globals", "debug_table"}}
    \cup {[at |-> "member", k |-> k] : k \in 1..NumDebugMembers}

CreateGlobals ==
    \E fault \in GlobalsFaults :
        LET r == create_globals(VM, installed, debugGlobal, fault)
            tbl == IF debugGlobal THEN DebugTable ELSE FallbackDebugTable
        IN /\ SetVM(r.vm)
           /\ installed' = r.inst
           /\ res' = MkRes("create_globals", r, [fault |-> fault, members |-> r.members],
                           [tbl |-> tbl, readonly |-> readonly[tbl]])
           /\ UNCHANGED <<unref, hookTab, hookLog, debugGlobal, Calls>>

InitGlobals ==
    /\ InitCommon
    /\ meta = meta0
    /\ readonly \in {readonly0, [readonly0 EXCEPT ![DebugTable] = TRUE]}
    /\ tfields = tfields0
    /\ registry = registry0
    /\ debugGlobal \in BOOLEAN

NextGlobals ==
    \/ CreateGlobals
    \/ SetTableReadonly({DebugTable})
    \/ IsTableReadonly({DebugTable})

SpecGlobals == InitGlobals /\ [][NextGlobals]_vars

-----------------------------------------------------------------------------
(* SpecHook: hookfunction and the Hook Registry *)

SF == [unref |-> unref, hookTab |-> hookTab]

HookTargets == {Fn(f) : f \in Funcs} \cup {Num(7)}
HookFaults == {"none", "create_table", "set_named", "create_registry_value", "set"}

\* every call on a function clones it; a registry slot must be left
HookFunction ==
    \E target \in HookTargets, hook \in {Fn(1), Fn(2)}, fault \in HookFaults :
        /\ nalloc < MaxAlloc
        /\ unref # <<>> \/ \E k \in 1..MaxRef : registry[k] = Nil
        /\ LET r == hookfunction(VM, SF, target, hook, fault)
           IN /\ SetVM(r.vm)
              /\ unref' = r.sf.unref
              /\ hookTab' = r.sf.hookTab
              /\ hookLog' = IF r.ret.out = "ok" THEN Append(hookLog, <<target, hook>>)
                                                ELSE hookLog
              /\ res' = MkRes("hookfunction", r,
                              [target |-> target, hook |-> hook, fault |-> fault], <<>>)
              /\ UNCHANGED <<installed, debugGlobal, Calls>>

InitHook ==
    /\ InitCommon
    /\ meta = meta0
    /\ readonly = readonly0
    /\ tfields = tfields0
    /\ registry \in {registry0, [registry0 EXCEPT ![1] = Thr(1)]}
    /\ debugGlobal = TRUE

NextHook ==
    \/ HookFunction
    \/ GetRegistry

SpecHook == InitHook /\ [][NextHook]_vars

-----------------------------------------------------------------------------
(* SpecMeta: metatables and the metamethod hook *)

MetaObjs == {Tbl(1), Ud(1), Num(7)}

HookMetamethod ==
    \E obj \in MetaObjs, method \in Methods, hook \in {Fn(2), Fn(NativeFn)},
       fault \in BOOLEAN :
        LET r == hookmetamethod(VM, obj, method, hook, fault)
        IN /\ SetVM(r.vm)
           /\ res' = MkRes("hookmetamethod", r,
                           [v |-> obj, method |-> method, hook |-> hook, fault |-> fault],
                           [meta |-> meta, tfields |-> tfields, readonly |-> readonly])
           /\ UNCHANGED Surface

GetRawMetatable ==
    \E o \in MetaObjs, fault \in BOOLEAN :
        LET r == getrawmetatable(VM, o, fault)
        IN /\ SetVM(r.vm)
           /\ res' = MkRes("getrawmetatable", r, [v |-> o, fault |-> fault],
                           [meta |-> meta, tfields |-> tfields, readonly |-> readonly])
           /\ UNCHANGED Surface

SetRawMetatable ==
    \E obj \in MetaObjs, mt \in {Nil, Tbl(2)}, fault \in BOOLEAN :
        LET r == setrawmetatable(VM, obj, mt, fault)
        IN /\ SetVM(r.vm)
           /\ res' = MkRes("setrawmetatable", r, [v |-> obj, mt |-> mt, fault |-> fault], <<>>)
           /\ UNCHANGED Surface

InitMeta ==
    /\ InitCommon
    /\ meta = meta0
    /\ readonly = readonly0
    /\ tfields \in {tfields0, [tfields0 EXCEPT ![2][1] = Fn(1)]}
    /\ registry = registry0
    /\ debugGlobal = TRUE

NextMeta ==
    \/ HookMetamethod
    \/ GetRawMetatable
    \/ SetRawMetatable
    \/ SetTableReadonly({2})
    \/ IsTableReadonly({2})

SpecMeta == InitMeta /\ [][NextMeta]_vars

-----------------------------------------------------------------------------
(* SpecConc: hookfunction calls issued at once against one VM handle.  A    *)
(* call runs while its caller holds the handle's lock, from the moment the  *)
(* VM starts to execute it until it returns; inside, the closure of         *)
(* create_hookfunction runs statement by statement.                         *)

\* the table object the create_table() of call p makes
CTbl(p) == Tbl(NTables + 3 + p)
\* the call whose table t is
Creator(t) == t.id - (NTables + 3)

VMVars == <<stack, upv, consts, frames, meta, readonly, tfields, nalloc, registry>>
Others == <<hookTab, hookLog, installed, debugGlobal, res>>

\* what a call may touch the VM with: the lock it holds
Holds(p) == lock = p

Goto(p, label) == pc' = [pc EXCEPT ![p] = label]

\* the VM starts to execute the call: its caller takes the lock
CallBegin(p) ==
    /\ pc[p] = "call"
    /\ lock = 0
    /\ lock' = p
    /\ order' = Append(order, p)
    /\ Goto(p, "match")
    /\ UNCHANGED <<VMVars, Others, unref, loc, htab>>

\* let target_func = match target { Function(f) => f, _ => return Err(..) }
StepMatch(p) ==
    /\ pc[p] = "match" /\ Holds(p)
    /\ IF loc[p].target.t = "function"
       THEN Goto(p, "clone") /\ UNCHANGED loc
       ELSE Goto(p, "return") /\ loc' = [loc EXCEPT ![p].ret = Err("NotAFunction")]
    /\ UNCHANGED <<VMVars, Others, unref, lock, order, htab>>

\* let original = lua.clone_function(&target_func)?
StepClone(p) ==
    /\ pc[p] = "clone" /\ Holds(p)
    /\ LET c == clone_function(VM, loc[p].target)
       IN /\ SetVM(c.vm)
          /\ loc' = [loc EXCEPT ![p].original = c.ret.val]
    /\ Goto(p, "lookup")
    /\ UNCHANGED <<Others, unref, lock, order, htab>>

\* lua.named_registry_value::<LuaTable>("__FUNCTION_HOOKS")
StepLookup(p) ==
    /\ pc[p] = "lookup" /\ Holds(p)
    /\ IF HaveHooksTable(VM)
       THEN Goto(p, "key") /\ loc' = [loc EXCEPT ![p].t = registry[0]]
       ELSE Goto(p, "create") /\ UNCHANGED loc
    /\ UNCHANGED <<VMVars, Others, unref, lock, order, htab>>

\* let t = lua.create_table().unwrap()
StepCreate(p) ==
    /\ pc[p] = "create" /\ Holds(p)
    /\ loc' = [loc EXCEPT ![p].t = CTbl(p), ![p].created = TRUE]
    /\ htab' = [htab EXCEPT ![p] = hookTab0]
    /\ Goto(p, "register")
    /\ UNCHANGED <<VMVars, Others, unref, lock, order>>

\* lua.set_named_registry_value("__FUNCTION_HOOKS", t.clone()).unwrap()
StepRegister(p) ==
    /\ pc[p] = "register" /\ Holds(p)
    /\ registry' = [registry EXCEPT ![0] = loc[p].t]
    /\ Goto(p, "key")
    /\ UNCHANGED <<stack, upv, consts, frames, meta, readonly, tfields, nalloc>>
    /\ UNCHANGED <<Others, unref, lock, order, loc, htab>>

\* lua.create_registry_value(target_func.clone())?
StepKey(p) ==
    /\ pc[p] = "key" /\ Holds(p)
    /\ LET k == create_registry_value(VM, SF, HookKeySource(loc[p].target, loc[p].original),
                                      FALSE)
       IN /\ SetVM(k.vm)
          /\ unref' = k.sf.unref
          /\ loc' = [loc EXCEPT ![p].key = k.id]
    /\ Goto(p, "set")
    /\ UNCHANGED <<Others, lock, order, htab>>

\* registry.set(key, hook)?; the key is dropped; Ok(original)
StepSet(p) ==
    /\ pc[p] = "set" /\ Holds(p)
    /\ LET key == RegistryKey_into_lua(VM, loc[p].key)
       IN htab' = [htab EXCEPT ![Creator(loc[p].t)][key.id] = loc[p].hook]
    /\ unref' = RegistryKey_drop(SF, loc[p].key).unref
    /\ loc' = [loc EXCEPT ![p].ret = OkVal(loc[p].original)]
    /\ Goto(p, "return")
    /\ UNCHANGED <<VMVars, Others, lock, order>>

\* the call returns: its caller releases the lock
CallEnd(p) ==
    /\ pc[p] = "return" /\ Holds(p)
    /\ lock' = 0
    /\ Goto(p, "done")
    /\ UNCHANGED <<VMVars, Others, unref, order, loc, htab>>

ConcTargets == {Fn(1), Fn(2), Num(7)}
ConcHooks == {Fn(1), Fn(NativeFn)}

InitConc ==
    /\ stack \in StackInits
    /\ upv = upv0
    /\ consts = consts0
    /\ frames = frames0
    /\ meta = meta0
    /\ readonly = readonly0
    /\ tfields = tfields0
    /\ nalloc = 0
    /\ registry = registry0
    /\ unref = <<>>
    /\ hookTab = hookTab0
    /\ hookLog = <<>>
    /\ installed = {}
    /\ debugGlobal = TRUE
    /\ res = res0
    /\ lock = 0
    /\ order = <<>>
    /\ pc = [p \in Procs |-> "call"]
    /\ loc \in [Procs -> {[loc0 EXCEPT !.target = t, !.hook = h] :
                            t \in ConcTargets, h \in ConcHooks}]
    /\ htab = [p \in Procs |-> hookTab0]

NextConc ==
    \E p \in Procs :
        \/ CallBegin(p)
        \/ StepMatch(p)
        \/ StepClone(p)
        \/ StepLookup(p)
        \/ StepCreate(p)
        \/ StepRegister(p)
        \/ StepKey(p)
        \/ StepSet(p)
        \/ CallEnd(p)

SpecConc == InitConc /\ [][NextConc]_vars

-----------------------------------------------------------------------------
(* Claims *)

ExtOps == {"get_registry", "get_upvalue", "set_upvalue", "get_metatable",
           "set_metatable", "clone_function", "is_table_readonly",
           "set_table_readonly", "get_constants", "get_constant", "set_constant",
           "get_protos", "get_proto", "get_stack_value", "set_stack_value"}

\* C1: whichever operation of the Introspection/Patch and Function-Internals
\* extensions ran last, and however it left (Ok, an early error return after
\* a failed push, a native primitive reporting failure), the operand stack is
\* as deep when it returns as it was when it was entered.
C1_StackBalance ==
    res.op \in ExtOps => res.d1 = res.d0 /\ Len(stack) = res.d0

\* C1 witness: set_upvalue left through the failure of the native primitive,
\* the path on which only the guard removes the pushed function
C1_Witness ==
    /\ res.op = "set_upvalue"
    /\ res.ret.err = "InvalidUpvalueIndex"
    /\ res.d0 > 0

\* C2 (as claimed): after getgc or filtergc the operand stack is as deep as
\* before the call, also when a store into the result table fails part-way
\* through the registry and the operation returns that error.
C2_GcStackBalance ==
    res.op \in {"getgc", "filtergc"} => res.d1 = res.d0

\* C3 (as claimed): when the debug table was read-only before create_globals,
\* it is read-only again on every exit path, the early error returns included.
C3_ReadonlyRestored ==
    (res.op = "create_globals" /\ res.pre.readonly) => readonly[res.pre.tbl]

\* the targets hooked so far, and the hook the last call on t installed
HookedTargets == {hookLog[i][1] : i \in DOMAIN hookLog}
LastHook(t) ==
    LET last == CHOOSE i \in DOMAIN hookLog :
                    /\ hookLog[i][1] = t
                    /\ \A j \in DOMAIN hookLog : hookLog[j][1] = t => j <= i
    IN hookLog[last][2]

\* C4: after any sequence of hookfunction calls the Hook Registry table holds
\* one entry per distinct target hooked, and the entry of a target is the
\* replacement of the last call on it (r2 after hook(t, r1), hook(t, r2)).
C4_OneEntryPerTarget ==
    /\ Cardinality({f \in DOMAIN hookTab : hookTab[f] # Nil}) = Cardinality(HookedTargets)
    /\ \A t \in HookedTargets : hookTab[t.id] = LastHook(t)
    /\ hookLog # <<>> => registry[0] = Tbl(HooksTable)

\* C4 witness: the same target hooked twice, with two different replacements
C4_Witness ==
    /\ Len(hookLog) >= 2
    /\ hookLog[1][1] = hookLog[2][1]
    /\ hookLog[1][2] # hookLog[2][2]
    /\ res.op = "hookfunction"

InRange(f, i) == f \in LuaFuncs /\ 1 <= i /\ i <= UpCount(f)

\* C5: for an interpreted function f, an index i within 1..upvalue count and
\* a value v the VM accepts, set_upvalue(f, i, v) succeeds, a get_upvalue(f, i)
\* right after it returns v under the name set_upvalue returned, and the other
\* upvalues of f are as they were.
C5_SetGetRoundTrip ==
    (res.op = "set_upvalue" /\ InRange(res.arg.f, res.arg.i) /\ ~res.arg.fault) =>
        LET f == res.arg.f
            i == res.arg.i
            g == debug_get_upvalue(VM, Fn(f), i).ret
        IN /\ res.ret.out = "ok"
           /\ g.out = "ok"
           /\ g.val = res.arg.v
           /\ g.name = res.ret.name
           /\ g.name # NullPtr
           /\ Len(upv[f]) = Len(res.pre[f])
           /\ \A j \in 1..Len(upv[f]) : j # i => upv[f][j] = res.pre[f][j]

\* C5 witness: the last upvalue of a function with several was overwritten
\* with a value that differs from the one it held
C5_Witness ==
    /\ res.op = "set_upvalue"
    /\ res.ret.out = "ok"
    /\ res.arg.i = UpCount(res.arg.f)
    /\ res.arg.i > 1
    /\ res.pre[res.arg.f][res.arg.i] # res.arg.v

\* C6 (as claimed): get_constant(f, idx) with idx at or past the constant
\* count of f returns nil, and the index the native primitive receives after
\* the narrowing to i32 selects no constant of f.
C6_OutOfRangeIsNil ==
    (res.op = "get_constant" /\ ~UsizeLess(res.arg.idx, ConstCount(res.arg.f))) =>
        /\ res.ret = OkVal(Nil)
        /\ ~(0 <= AsI32(res.arg.idx) /\ AsI32(res.arg.idx) < ConstCount(res.arg.f))

\* C7: for an index outside 1..upvalue count of f (every index when f is
\* native), get_upvalue and set_upvalue (of a value the VM accepts) fail with
\* the invalid-index error, and the failed set_upvalue changes no upvalue.
C7_InvalidIndex ==
    /\ (res.op = "get_upvalue" /\ ~InRange(res.arg.f, res.arg.i)) =>
            res.ret = Err("InvalidUpvalueIndex") /\ upv = res.pre
    /\ (res.op = "set_upvalue" /\ ~InRange(res.arg.f, res.arg.i) /\ ~res.arg.fault) =>
            res.ret = Err("InvalidUpvalueIndex") /\ upv = res.pre

\* C7 witness: set_upvalue one past the last upvalue of a function that has some
C7_Witness ==
    /\ res.op = "set_upvalue"
    /\ res.arg.f \in LuaFuncs
    /\ UpCount(res.arg.f) > 0
    /\ res.arg.i = UpCount(res.arg.f) + 1
    /\ ~res.arg.fault

\* C8 (as claimed): for every value v with a metatable mt, hookmetamethod(v, m,
\* repl) returns the handler mt held under m, and afterwards v still has mt,
\* mt[m] is repl and every other field is as it was.
C8_HookMetamethod ==
    (res.op = "hookmetamethod" /\ ~res.arg.fault /\ res.pre.meta[MetaSlot(res.arg.v)] # 0) =>
        LET mt == res.pre.meta[MetaSlot(res.arg.v)]
        IN /\ res.ret = OkVal(res.pre.tfields[mt][res.arg.method])
           /\ meta = res.pre.meta
           /\ tfields = [res.pre.tfields EXCEPT ![mt][res.arg.method] = res.arg.hook]

\* C9: for a value v without a metatable, getrawmetatable(v) returns nil and
\* no error, while hookmetamethod(v, m, repl) fails with "Object has no
\* metatable" and changes no metatable, no field and no read-only flag.
C9_AbsentMetatable ==
    /\ (res.op = "getrawmetatable" /\ ~res.arg.fault /\ res.pre.meta[MetaSlot(res.arg.v)] = 0) =>
            res.ret = OkVal(Nil) /\ meta = res.pre.meta
    /\ (res.op = "hookmetamethod" /\ ~res.arg.fault /\ res.pre.meta[MetaSlot(res.arg.v)] = 0) =>
            /\ res.ret = Err("NoMetatable")
            /\ meta = res.pre.meta
            /\ tfields = res.pre.tfields
            /\ readonly = res.pre.readonly

\* C9 witness: hookmetamethod on a value without a metatable while another
\* value has one
C9_Witness ==
    /\ res.op = "hookmetamethod"
    /\ ~res.arg.fault
    /\ meta[MetaSlot(res.arg.v)] = 0
    /\ \E o \in MetaObjs : meta[MetaSlot(o)] # 0

\* a name equals the lower-case type name b up to the case of its letters
EqIgnoreCase(a, b) ==
    /\ Len(a) = Len(b)
    /\ \A i \in 1..Len(a) : a[i] = b[i] \/ a[i] + 32 = b[i]
NamedType(name) ==
    CASE EqIgnoreCase(name, NAME_function) -> "function"
      [] EqIgnoreCase(name, NAME_table) -> "table"
      [] EqIgnoreCase(name, NAME_userdata) -> "userdata"
      [] EqIgnoreCase(name, NAME_thread) -> "thread"
      [] EqIgnoreCase(name, NAME_string) -> "string"
      [] OTHER -> ""
Occurrences(seq, v) == Cardinality({i \in 1..Len(seq) : seq[i] = v})

\* C10: when nothing fails, filtergc(name) for one of the five type names in
\* any letter case returns a gap-free sequence with one element per registry
\* entry of that type and nothing else; for any other name it returns the
\* empty sequence; in both cases no error.
C10_FilterGc ==
    (res.op = "filtergc" /\ ~res.arg.ctFault /\ res.arg.failAt = 0) =>
        LET T == NamedType(res.arg.type_filter)
            seq == res.ret.seq
        IN /\ res.ret.out = "ok"
           /\ IF T = ""
              THEN seq = <<>>
              ELSE /\ \A i \in 1..Len(seq) : seq[i].t = T
                   /\ \A v \in RegVals \cup {Tbl(HooksTable)} :
                        Occurrences(seq, v) =
                            Cardinality({k \in 0..MaxRef : registry[k] = v /\ v.t = T})
                   /\ Len(seq) = Cardinality({k \in 0..MaxRef : registry[k].t = T})

\* C10 witness: "FUNCTION" in capitals selected two functions from a registry
\* that also holds a value of another type
C10_Witness ==
    /\ res.op = "filtergc"
    /\ res.arg.type_filter = <<70, 85, 78, 67, 84, 73, 79, 78>>
    /\ res.ret.out = "ok"
    /\ Len(res.ret.seq) = 2
    /\ \E k \in 0..MaxRef : registry[k].t = "table"

\* the types getgc returns for a flag: "none" is the omitted flag
GcTypes(flag) ==
    IF flag = "true" THEN {"function", "userdata", "thread", "table"}
    ELSE {"function", "userdata", "thread"}

\* C11: when nothing fails, getgc(false) and getgc() return one element per
\* registry entry of type function, userdata or thread and no table, and
\* getgc(true) returns those and one element per registry entry of type
\* table; no nil, boolean, number or string is returned.
C11_GetGc ==
    (res.op = "getgc" /\ ~res.arg.ctFault /\ res.arg.failAt = 0) =>
        LET T == GcTypes(res.arg.include_tables)
            seq == res.ret.seq
        IN /\ res.ret.out = "ok"
           /\ \A i \in 1..Len(seq) : seq[i].t \in T
           /\ \A v \in RegVals \cup {Tbl(HooksTable)} :
                Occurrences(seq, v) =
                    Cardinality({k \in 0..MaxRef : registry[k] = v /\ v.t \in T})
           /\ Len(seq) = Cardinality({k \in 0..MaxRef : registry[k].t \in T})

\* C11 witness: getgc() with the flag omitted over a registry that holds a
\* table, a function and a boolean returned the function alone
C11_Witness ==
    /\ res.op = "getgc"
    /\ res.arg.include_tables = "none"
    /\ res.ret.out = "ok"
    /\ Len(res.ret.seq) = 1
    /\ \E k \in 0..MaxRef : registry[k].t = "table"
    /\ \E k \in 0..MaxRef : registry[k].t = "boolean"

\* C12 (as claimed): whatever fails inside a global surface function, the
\* failure to create or to register the Hook Registry table on the first
\* hookfunction call and the failure to create the fallback debug table in
\* create_globals included, the call returns an error value: no call ends in
\* a panic.
C12_NoPanic ==
    res.op \in {"hookfunction", "create_globals"} => res.ret.out # "panic"

\* the calls run one after the other, each as a whole, in the order seq
RECURSIVE SeqRun(_, _, _, _, _)
SeqRun(vm, sf, seq, i, rets) ==
    IF i > Len(seq)
    THEN [vm |-> vm, sf |-> sf, rets |-> rets]
    ELSE LET p == seq[i]
             r == hookfunction(vm, sf, loc[p].target, loc[p].hook, "none")
         IN SeqRun(r.vm, r.sf, seq, i + 1, [rets EXCEPT ![p] = r.ret])

AllDone == \A p \in Procs : pc[p] = "done"
Creators == {p \in Procs : loc[p].created}
\* position of call p in the lock-acquisition order
Turn(p) == CHOOSE i \in 1..Len(order) : order[i] = p

C14_BulkAgreesWithIndexed ==
    /\ (res.op = "get_constants" /\ res.arg.f \in LuaFuncs
            /\ ~res.arg.ctFault /\ res.arg.failAt = 0) =>
          /\ res.ret.out = "ok"
          /\ Len(res.ret.seq) = ConstCount(res.arg.f)
          /\ \A i \in 0..(ConstCount(res.arg.f) - 1) :
                res.ret.seq[i + 1] =
                    get_function_constant(VM, Fn(res.arg.f), UsizeOf(i)).ret.val
    /\ (res.op = "get_protos" /\ res.arg.f \in LuaFuncs
            /\ ~res.arg.ctFault /\ res.arg.failAt = 0) =>
          /\ res.ret.out = "ok"
          /\ Len(res.ret.seq) = ProtoCount(res.arg.f)
          /\ \A j \in 0..(ProtoCount(res.arg.f) - 1) :
                res.ret.seq[j + 1] =
                    get_function_proto(VM, Fn(res.arg.f), UsizeOf(j), FALSE).ret.val

====
